---- MODULE Spec2Model ----
(***************************************************************************)
(* The App component of src/src/App.js as a state machine: the five React  *)
(* state cells, the requests issued by uploadResume that have not settled  *)
(* yet, and one action per event handler or promise continuation.          *)
(*                                                                         *)
(* JavaScript values are tagged records: [t |-> "null"], [t |->            *)
(* "undefined"], [t |-> "string", v |-> s] and, for a File,                *)
(* [t |-> "file", name, size, type].  `error` only ever receives string    *)
(* literals and one template string, so it is kept as a plain string.      *)
(***************************************************************************)
EXTENDS Integers, Sequences, FiniteSets, TLC

VARIABLES
    selectedFile,   \* useState(null), line 7
    feedback,       \* useState(""), line 8
    error,          \* useState(""), line 9
    loading,        \* useState(false), line 10
    darkMode,       \* useState(false), line 11
    inflight,       \* the calls of uploadResume suspended at an await: the file
                    \* put in the form data, the await reached (fetch or
                    \* response.json) and the status once a response is in
    sent,           \* number of fetch() calls made so far
    saved,          \* the text lines of the last document handed to doc.save
    event           \* the handler or continuation that ran last, with its input

vars == <<selectedFile, feedback, error, loading, darkMode, inflight, sent, saved, event>>

----------------------------------------------------------------------------
(* Bounds of the model *)

\* fetch() is called at most this many times in one run
MaxRequests == 2

----------------------------------------------------------------------------
(* JavaScript values *)

JSNull == [t |-> "null"]
JSUndefined == [t |-> "undefined"]
JSString(s) == [t |-> "string", v |-> s]
JSFile(n, s, ty) == [t |-> "file", name |-> n, size |-> s, type |-> ty]

\* ToBoolean, as applied by `!selectedFile`, `selectedFile && ...`,
\* `error && ...` and `feedback && ...`
Truthy(v) ==
    CASE v.t = "null" -> FALSE
      [] v.t = "undefined" -> FALSE
      [] v.t = "string" -> v.v # ""
      [] OTHER -> TRUE

\* GetFeedback reading a property the service does not send
GetFeedbackWrongKey(data) ==
    IF "message" \in DOMAIN data THEN data.message ELSE JSUndefined

\* data.feedback: property read on a parsed JSON object
GetFeedback(data) ==
    IF "feedback" \in DOMAIN data THEN data.feedback ELSE JSUndefined

----------------------------------------------------------------------------
(* Program constants *)

MAX_FILE_SIZE == 2 * 1024 * 1024

ALLOWED_FILE_TYPES ==
    { "application/pdf",
      "application/msword",
      "application/vnd.openxmlformats-officedocument.wordprocessingml.document",
      "text/plain" }

MsgNoFile == "Please select a file before uploading."
MsgTooLarge == "File size exceeds the 2MB limit."
MsgBadType == "Invalid file type. Please upload a PDF, DOC, DOCX, or TXT file."
MsgBadRequest == "Bad request. Please check the file format or try another resume."
MsgServerError == "Server error. Please try again later."
MsgUnexpectedPrefix == "Unexpected error: "
MsgTransport == "There was an error uploading the resume. Please try again."

PdfTitle == "Resume Evaluation Feedback"

----------------------------------------------------------------------------
(* Inputs *)

FileNames == { "resume" }
FileSizes == { 0, MAX_FILE_SIZE, MAX_FILE_SIZE + 1 }
FileTypes == ALLOWED_FILE_TYPES \cup { "image/png" }

Files == { JSFile(n, s, ty) : n \in FileNames, s \in FileSizes, ty \in FileTypes }

\* e.target.files[0]: a File, or undefined when the dialog leaves no file
PickerResults == Files \cup { JSUndefined }

\* the picker's results where several uploads run side by side: two files that
\* pass validation, one that does not, and no file
FewPickerResults ==
    { JSFile("resume", 0, "application/pdf"),
      JSFile("resume", MAX_FILE_SIZE, "text/plain"),
      JSFile("resume", 0, "image/png"),
      JSUndefined }

\* status and statusText of the Response fetch() resolves with
Responses ==
    { <<200, "OK">>, <<204, "No Content">>, <<400, "Bad Request">>,
      <<404, "Not Found">>, <<500, "Internal Server Error">>, <<503, "">> }

FeedbackTexts == { "Great resume", "Needs work", "" }

\* what response.json() resolves with
JsonValues ==
    { [t |-> "object", feedback |-> JSString(f)] : f \in FeedbackTexts }
        \cup { [t |-> "object"], JSNull }

NoData == JSUndefined

Ev(op, result, status, statusText, data) ==
    [op |-> op, result |-> result, status |-> status,
     statusText |-> statusText, data |-> data, file |-> NoData]

\* the continuation of request r that delivered its result: `file` is the
\* selectedFile its call of uploadResume closed over and put in the form data
EvOf(r, op, result, status, statusText, data) ==
    [Ev(op, result, status, statusText, data) EXCEPT !.file = r.file]

----------------------------------------------------------------------------
(* Pure parts of uploadResume *)

\* validationError with the type rule tried before the size rule
validationErrorTypeFirst(file) ==
    IF ~Truthy(file) THEN MsgNoFile
    ELSE IF file.type \notin ALLOWED_FILE_TYPES THEN MsgBadType
    ELSE IF file.size > MAX_FILE_SIZE THEN MsgTooLarge
    ELSE ""

\* validationError without the type rule
validationErrorNoTypeRule(file) ==
    IF ~Truthy(file) THEN MsgNoFile
    ELSE IF file.size > MAX_FILE_SIZE THEN MsgTooLarge
    ELSE ""

\* The three validation rules in source order; "" when the file passes.
validationError(file) ==
    IF ~Truthy(file) THEN MsgNoFile
    ELSE IF file.size > MAX_FILE_SIZE THEN MsgTooLarge
    ELSE IF file.type \notin ALLOWED_FILE_TYPES THEN MsgBadType
    ELSE ""

\* response.ok
ResponseOk(status) == status \in 200..299

\* statusError without the branch for status 500
statusErrorNo500(status, statusText) ==
    IF status = 400 THEN MsgBadRequest
    ELSE MsgUnexpectedPrefix \o statusText

\* The else-if chain on response.status
statusError(status, statusText) ==
    IF status = 400 THEN MsgBadRequest
    ELSE IF status = 500 THEN MsgServerError
    ELSE MsgUnexpectedPrefix \o statusText

----------------------------------------------------------------------------
(* Initial state *)

Init ==
    /\ selectedFile = JSNull
    /\ feedback = JSString("")
    /\ error = ""
    /\ loading = FALSE
    /\ darkMode = FALSE
    /\ inflight = {}
    /\ sent = 0
    /\ saved = <<>>
    /\ event = Ev("init", "", 0, "", NoData)

----------------------------------------------------------------------------
(* Event handlers *)

toggleTheme ==
    /\ darkMode' = ~darkMode
    /\ event' = Ev("toggleTheme", "", 0, "", NoData)
    /\ UNCHANGED <<selectedFile, feedback, error, loading, inflight, sent, saved>>

\* onChange without setError("")
onChangeKeepsError(file) ==
    /\ selectedFile' = file
    /\ event' = Ev("onChange", "", 0, "", file)
    /\ UNCHANGED <<feedback, error, loading, darkMode, inflight, sent, saved>>

\* onChange that also calls setFeedback("")
onChangeClearsFeedback(file) ==
    /\ selectedFile' = file
    /\ error' = ""
    /\ feedback' = JSString("")
    /\ event' = Ev("onChange", "", 0, "", file)
    /\ UNCHANGED <<loading, darkMode, inflight, sent, saved>>

\* onChange that also swaps the file of the uploads that are running
onChangeRetargets(file) ==
    /\ selectedFile' = file
    /\ error' = ""
    /\ inflight' = { [r EXCEPT !.file = file] : r \in inflight }
    /\ event' = Ev("onChange", "", 0, "", file)
    /\ UNCHANGED <<feedback, loading, darkMode, sent, saved>>

\* onChange of the hidden file input
onChange(file) ==
    /\ selectedFile' = file
    /\ error' = ""
    /\ event' = Ev("onChange", "", 0, "", file)
    /\ UNCHANGED <<feedback, loading, darkMode, inflight, sent, saved>>

\* uploadResume with setLoading(true) moved above the validation
uploadResumeLoadingFirst ==
    LET msg == validationError(selectedFile) IN
    IF msg # ""
    THEN /\ error' = msg
         /\ loading' = TRUE
         /\ event' = Ev("uploadResume", "invalid", 0, "", NoData)
         /\ UNCHANGED <<selectedFile, feedback, darkMode, inflight, sent, saved>>
    ELSE /\ sent < MaxRequests
         /\ error' = ""
         /\ loading' = TRUE
         /\ sent' = sent + 1
         /\ inflight' = inflight \cup
                { [id |-> sent + 1, file |-> selectedFile, phase |-> "fetch", status |-> 0] }
         /\ event' = Ev("uploadResume", "sent", 0, "", NoData)
         /\ UNCHANGED <<selectedFile, feedback, darkMode, saved>>

\* uploadResume without the setError("") of its first line
uploadResumeKeepsError ==
    LET msg == validationError(selectedFile) IN
    IF msg # ""
    THEN /\ error' = msg
         /\ event' = Ev("uploadResume", "invalid", 0, "", NoData)
         /\ UNCHANGED <<selectedFile, feedback, loading, darkMode, inflight, sent, saved>>
    ELSE /\ sent < MaxRequests
         /\ loading' = TRUE
         /\ sent' = sent + 1
         /\ inflight' = inflight \cup
                { [id |-> sent + 1, file |-> selectedFile, phase |-> "fetch", status |-> 0] }
         /\ event' = Ev("uploadResume", "sent", 0, "", NoData)
         /\ UNCHANGED <<selectedFile, feedback, error, darkMode, saved>>

\* uploadResume that returns at once while an upload is running
uploadResumeGuarded ==
    LET msg == validationError(selectedFile) IN
    IF loading
    THEN /\ event' = Ev("uploadResume", "ignored", 0, "", NoData)
         /\ UNCHANGED <<selectedFile, feedback, error, loading, darkMode, inflight, sent, saved>>
    ELSE IF msg # ""
    THEN /\ error' = msg
         /\ event' = Ev("uploadResume", "invalid", 0, "", NoData)
         /\ UNCHANGED <<selectedFile, feedback, loading, darkMode, inflight, sent, saved>>
    ELSE /\ sent < MaxRequests
         /\ error' = ""
         /\ loading' = TRUE
         /\ sent' = sent + 1
         /\ inflight' = inflight \cup
                { [id |-> sent + 1, file |-> selectedFile, phase |-> "fetch", status |-> 0] }
         /\ event' = Ev("uploadResume", "sent", 0, "", NoData)
         /\ UNCHANGED <<selectedFile, feedback, darkMode, saved>>

\* uploadResume, from its entry to the first await (or to an early return)
uploadResume ==
    LET msg == validationError(selectedFile) IN
    IF msg # ""
    THEN /\ error' = msg
         /\ event' = Ev("uploadResume", "invalid", 0, "", NoData)
         /\ UNCHANGED <<selectedFile, feedback, loading, darkMode, inflight, sent, saved>>
    ELSE /\ sent < MaxRequests
         /\ error' = ""
         /\ loading' = TRUE
         /\ sent' = sent + 1
         /\ inflight' = inflight \cup
                { [id |-> sent + 1, file |-> selectedFile, phase |-> "fetch", status |-> 0] }
         /\ event' = Ev("uploadResume", "sent", 0, "", NoData)
         /\ UNCHANGED <<selectedFile, feedback, darkMode, saved>>

\* resetRequest without setFeedback("")
resetRequestKeepsFeedback ==
    /\ selectedFile' = JSNull
    /\ error' = ""
    /\ event' = Ev("resetRequest", "", 0, "", NoData)
    /\ UNCHANGED <<feedback, loading, darkMode, inflight, sent, saved>>

\* resetRequest that also drops the pending upload and its loading flag
resetRequestCancels ==
    /\ selectedFile' = JSNull
    /\ feedback' = JSString("")
    /\ error' = ""
    /\ loading' = FALSE
    /\ inflight' = {}
    /\ event' = Ev("resetRequest", "", 0, "", NoData)
    /\ UNCHANGED <<darkMode, sent, saved>>

\* resetRequest that also calls setLoading(false)
resetRequestClearsLoading ==
    /\ selectedFile' = JSNull
    /\ feedback' = JSString("")
    /\ error' = ""
    /\ loading' = FALSE
    /\ event' = Ev("resetRequest", "", 0, "", NoData)
    /\ UNCHANGED <<darkMode, inflight, sent, saved>>

resetRequest ==
    /\ selectedFile' = JSNull
    /\ feedback' = JSString("")
    /\ error' = ""
    /\ event' = Ev("resetRequest", "", 0, "", NoData)
    /\ UNCHANGED <<loading, darkMode, inflight, sent, saved>>

\* downloadPDF without the title line
downloadPDFNoTitle ==
    /\ saved' = <<feedback.v>>
    /\ event' = Ev("downloadPDF", "", 0, "", NoData)
    /\ UNCHANGED <<selectedFile, feedback, error, loading, darkMode, inflight, sent>>

downloadPDF ==
    /\ saved' = <<PdfTitle, feedback.v>>
    /\ event' = Ev("downloadPDF", "", 0, "", NoData)
    /\ UNCHANGED <<selectedFile, feedback, error, loading, darkMode, inflight, sent>>

----------------------------------------------------------------------------
(* Continuations of uploadResume after an await *)

\* fetchResolve whose error branches also call setFeedback("")
fetchResolveClearsFeedback(r, status, statusText) ==
    /\ r \in inflight
    /\ r.phase = "fetch"
    /\ IF ResponseOk(status)
       THEN /\ inflight' = (inflight \ {r}) \cup
                            { [r EXCEPT !.phase = "json", !.status = status] }
            /\ event' = Ev("fetch", "ok", status, statusText, NoData)
            /\ UNCHANGED <<error, loading, feedback>>
       ELSE /\ error' = statusError(status, statusText)
            /\ feedback' = JSString("")
            /\ loading' = FALSE
            /\ inflight' = inflight \ {r}
            /\ event' = Ev("fetch", "status", status, statusText, NoData)
    /\ UNCHANGED <<selectedFile, darkMode, sent, saved>>

\* fetchResolve that sends the request again after a status 500
fetchResolveRetries500(r, status, statusText) ==
    /\ r \in inflight
    /\ r.phase = "fetch"
    /\ IF ResponseOk(status)
       THEN /\ inflight' = (inflight \ {r}) \cup
                            { [r EXCEPT !.phase = "json", !.status = status] }
            /\ event' = Ev("fetch", "ok", status, statusText, NoData)
            /\ UNCHANGED <<error, loading, sent>>
       ELSE IF status = 500 /\ sent < MaxRequests
       THEN /\ inflight' = (inflight \ {r}) \cup { [r EXCEPT !.id = sent + 1] }
            /\ sent' = sent + 1
            /\ event' = Ev("fetch", "retry", status, statusText, NoData)
            /\ UNCHANGED <<error, loading>>
       ELSE /\ error' = statusError(status, statusText)
            /\ loading' = FALSE
            /\ inflight' = inflight \ {r}
            /\ event' = Ev("fetch", "status", status, statusText, NoData)
            /\ UNCHANGED sent
    /\ UNCHANGED <<selectedFile, feedback, darkMode, saved>>

\* fetch() resolved with a Response
fetchResolve(r, status, statusText) ==
    /\ r \in inflight
    /\ r.phase = "fetch"
    /\ IF ResponseOk(status)
       THEN /\ inflight' = (inflight \ {r}) \cup
                            { [r EXCEPT !.phase = "json", !.status = status] }
            /\ event' = Ev("fetch", "ok", status, statusText, NoData)
            /\ UNCHANGED <<error, loading>>
       ELSE /\ error' = statusError(status, statusText)
            /\ loading' = FALSE
            /\ inflight' = inflight \ {r}
            /\ event' = Ev("fetch", "status", status, statusText, NoData)
    /\ UNCHANGED <<selectedFile, feedback, darkMode, sent, saved>>

\* the catch block with no finally block after it
catchNoFinally(r, op) ==
    /\ error' = MsgTransport
    /\ inflight' = inflight \ {r}
    /\ event' = Ev(op, "rejected", r.status, "", NoData)
    /\ UNCHANGED <<selectedFile, feedback, loading, darkMode, sent, saved>>

\* the catch block followed by the finally block
catchFinally(r, op) ==
    /\ error' = MsgTransport
    /\ loading' = FALSE
    /\ inflight' = inflight \ {r}
    /\ event' = Ev(op, "rejected", r.status, "", NoData)
    /\ UNCHANGED <<selectedFile, feedback, darkMode, sent, saved>>

\* fetch() rejected: no response at all
fetchReject(r) ==
    /\ r \in inflight
    /\ r.phase = "fetch"
    /\ catchFinally(r, "fetch")

\* response.json() resolved with the parsed body
jsonResolve(r, data) ==
    /\ r \in inflight
    /\ r.phase = "json"
    /\ IF data.t = "object"
       THEN /\ feedback' = GetFeedback(data)
            /\ loading' = FALSE
            /\ inflight' = inflight \ {r}
            /\ event' = EvOf(r, "json", "data", r.status, "", data)
            /\ UNCHANGED <<selectedFile, error, darkMode, sent, saved>>
       ELSE \* data.feedback on null throws a TypeError inside the try
            catchFinally(r, "json")

\* response.json() rejected: the body is not JSON
jsonReject(r) ==
    /\ r \in inflight
    /\ r.phase = "json"
    /\ catchFinally(r, "json")

----------------------------------------------------------------------------
(* What the rendered page offers *)

\* <Button onClick={uploadResume} disabled={loading}>
ClickUpload == ~loading /\ uploadResume

\* {feedback && ( ... <Button onClick={downloadPDF}> ... )}
ClickDownload == Truthy(feedback) /\ downloadPDF

Settle ==
    \E r \in inflight :
        \/ \E resp \in Responses : fetchResolve(r, resp[1], resp[2])
        \/ fetchReject(r)
        \/ \E data \in JsonValues : jsonResolve(r, data)
        \/ jsonReject(r)

Next ==
    \/ toggleTheme
    \/ \E file \in PickerResults : onChange(file)
    \/ ClickUpload
    \/ resetRequest
    \/ ClickDownload
    \/ Settle

\* the runtime settles every promise it was given: a pending fetch() or
\* response.json() eventually resolves or rejects
Fairness == WF_vars(Settle)

Spec == Init /\ [][Next]_vars

LiveSpec == Spec /\ Fairness

\* uploadResume called while the button is disabled: the function itself does
\* not look at loading, only the button's disabled attribute does
NextUnguarded ==
    \/ toggleTheme
    \/ \E file \in FewPickerResults : onChange(file)
    \/ uploadResume
    \/ resetRequest
    \/ ClickDownload
    \/ Settle

SpecUnguarded == Init /\ [][NextUnguarded]_vars

----------------------------------------------------------------------------
(* Vocabulary of the properties, written without the operators above *)

TwoMiB == 2097152

FourTypes ==
    { "application/pdf",
      "application/msword",
      "application/vnd.openxmlformats-officedocument.wordprocessingml.document",
      "text/plain" }

IsFile(v) == v.t = "file"
NoFileChosen(v) == v.t \in { "null", "undefined" }
Oversized(v) == IsFile(v) /\ v.size > TwoMiB
WrongType(v) == IsFile(v) /\ v.type \notin FourTypes
FailsValidation(v) == NoFileChosen(v) \/ Oversized(v) \/ WrongType(v)

Submitted == event.op = "uploadResume"

----------------------------------------------------------------------------
(* C1: reset *)

\* C1 as stated: in every state right after resetRequest, SelectedFile is null,
\* FeedbackText and ErrorMessage are "" and the loading flag is false.
C1_ResetYieldsIdle ==
    event.op = "resetRequest" =>
        /\ selectedFile = JSNull
        /\ feedback = JSString("")
        /\ error = ""
        /\ loading = FALSE

\* C1 amended: every resetRequest step ends with SelectedFile null, FeedbackText
\* "" and ErrorMessage "", and leaves the loading flag and the requests in flight
\* as they were; the flag is false after the reset exactly when no request is in
\* flight.
C1_ResetClearsButKeepsLoading ==
    [][ event'.op = "resetRequest" =>
            /\ selectedFile' = JSNull
            /\ feedback' = JSString("")
            /\ error' = ""
            /\ loading' = loading
            /\ inflight' = inflight
            /\ (loading' <=> inflight' # {}) ]_vars

\* a reset issued while an upload is in flight, after an earlier success
C1_Witness ==
    /\ event.op = "resetRequest"
    /\ loading
    /\ inflight # {}
    /\ sent = 2

----------------------------------------------------------------------------
(* C2: a submit that fails validation *)

\* C2: an uploadResume step whose SelectedFile fails validation sets
\* ErrorMessage to the message of the first failing rule, issues no request and
\* leaves the loading flag false.
C2_InvalidSubmitStaysIdle ==
    [][ (event'.op = "uploadResume" /\ FailsValidation(selectedFile)) =>
            /\ NoFileChosen(selectedFile) => error' = MsgNoFile
            /\ Oversized(selectedFile) => error' = MsgTooLarge
            /\ (WrongType(selectedFile) /\ ~Oversized(selectedFile)) => error' = MsgBadType
            /\ sent' = sent
            /\ inflight' = inflight
            /\ loading' = loading
            /\ ~loading' ]_vars

\* an invalid submit made after an earlier upload went through
C2_Witness ==
    /\ Submitted
    /\ WrongType(selectedFile)
    /\ error = MsgBadType
    /\ sent = 1
    /\ ~loading

----------------------------------------------------------------------------
(* C3: the size rule *)

\* C3: right after a submit of a file larger than 2 MiB the error is the
\* size-limit message whatever the mime type, and right after a submit of a file
\* of exactly 2 MiB it is not the size-limit message.
C3_SizeRuleFirst ==
    (Submitted /\ IsFile(selectedFile)) =>
        /\ selectedFile.size > TwoMiB => error = MsgTooLarge
        /\ selectedFile.size = TwoMiB => error # MsgTooLarge

\* an oversized file of a type outside the allow-set was submitted
C3_Witness ==
    /\ Submitted
    /\ Oversized(selectedFile)
    /\ WrongType(selectedFile)
    /\ error = MsgTooLarge

----------------------------------------------------------------------------
(* C4: the type rule *)

\* C4 as stated: right after a submit of a file whose mime type is outside the
\* four allowed values the error is the unsupported-type message.
C4_WrongTypeAlwaysReported ==
    (Submitted /\ WrongType(selectedFile)) => error = MsgBadType

\* C4 amended: right after a submit of a file of at most 2 MiB whose mime type is
\* outside the four allowed values the error is the unsupported-type message,
\* even at zero size.
C4_WrongTypeReportedWithinSize ==
    (Submitted /\ WrongType(selectedFile) /\ selectedFile.size <= TwoMiB) =>
        error = MsgBadType

\* an empty file of a type outside the allow-set was submitted
C4_Witness ==
    /\ Submitted
    /\ WrongType(selectedFile)
    /\ selectedFile.size = 0
    /\ error = MsgBadType

----------------------------------------------------------------------------
(* C5: a successful response *)

HasFeedbackString(data) ==
    /\ data.t = "object"
    /\ "feedback" \in DOMAIN data
    /\ data.feedback.t = "string"

\* C5: right after response.json() of a 2xx response resolved with an object
\* whose feedback field is the string F, FeedbackText is F, the loading flag is
\* false and ErrorMessage is "".
C5_SuccessSetsFeedback ==
    (event.op = "json" /\ event.status \in 200..299 /\ HasFeedbackString(event.data)) =>
        /\ feedback = event.data.feedback
        /\ ~loading
        /\ error = ""

\* the service answered {"feedback": "Great resume"}
C5_Witness ==
    /\ event.op = "json"
    /\ event.status = 200
    /\ event.data = [t |-> "object", feedback |-> JSString("Great resume")]
    /\ feedback = JSString("Great resume")
    /\ ~loading

----------------------------------------------------------------------------
(* C6: failures leave FeedbackText alone *)

\* the step is a failure outcome of uploadResume: a submit that fails
\* validation, a response with a status outside 2xx, or fetch() rejecting
FailureStep ==
    \/ event'.op = "uploadResume" /\ FailsValidation(selectedFile)
    \/ event'.op = "fetch" /\ event'.result = "status" /\ event'.status \notin 200..299
    \/ event'.op = "fetch" /\ event'.result = "rejected"

\* C6: every failure step of uploadResume (validation failure, status 400,
\* status 500, another non-2xx status, transport failure) leaves FeedbackText as
\* it was before the step.
C6_FailureKeepsFeedback ==
    [][ FailureStep => feedback' = feedback ]_vars

\* a re-submission answered 400 while the feedback of an earlier success shows
C6_Witness ==
    /\ event.op = "fetch"
    /\ event.status = 400
    /\ error = MsgBadRequest
    /\ feedback = JSString("Great resume")
    /\ sent = 2

----------------------------------------------------------------------------
(* C7: the error message of each failed response *)

FailureMessages(statusText) ==
    << MsgBadRequest, MsgServerError, "Unexpected error: " \o statusText, MsgTransport >>

\* C7: right after a response with status 400 the error is the bad-request
\* message, with status 500 the server-error message, with any other non-2xx
\* status "Unexpected error: " followed by the status text, and after fetch()
\* rejected the generic retry message; the four are pairwise distinct, and in
\* each case the loading flag is false and ErrorMessage is not "".
C7_StatusMessages ==
    /\ (event.op = "fetch" /\ event.result # "ok") =>
            /\ event.status = 400 => error = FailureMessages(event.statusText)[1]
            /\ event.status = 500 => error = FailureMessages(event.statusText)[2]
            /\ (event.result = "status" /\ event.status \notin (200..299) \cup {400, 500}) =>
                    error = FailureMessages(event.statusText)[3]
            /\ event.result = "rejected" => error = FailureMessages(event.statusText)[4]
            /\ ~loading
            /\ error # ""
    /\ \A resp \in Responses : \A i, j \in 1..4 :
            i # j => FailureMessages(resp[2])[i] # FailureMessages(resp[2])[j]

\* the service answered 500
C7_Witness ==
    /\ event.op = "fetch"
    /\ event.status = 500
    /\ error = MsgServerError
    /\ ~loading

----------------------------------------------------------------------------
(* C8, C9: selecting a file *)

\* C8: every onChange step makes SelectedFile the file the picker gave, valid
\* or not, sets ErrorMessage to "", and changes nothing else.
C8_SelectReplacesFileAndClearsError ==
    [][ event'.op = "onChange" =>
            /\ selectedFile' = event'.data
            /\ error' = ""
            /\ UNCHANGED <<feedback, loading, darkMode, inflight, sent, saved>> ]_vars

\* a file that would fail validation was selected and is the SelectedFile
C8_Witness ==
    /\ event.op = "onChange"
    /\ Oversized(selectedFile)
    /\ WrongType(selectedFile)
    /\ error = ""
    /\ sent = 1

\* C9 as stated: an onChange step taken while FeedbackText is non-empty ends
\* with FeedbackText "" and the loading flag false.
C9_SelectClearsFeedback ==
    [][ (event'.op = "onChange" /\ Truthy(feedback)) =>
            (feedback' = JSString("") /\ ~loading') ]_vars

\* C9 amended: an onChange step taken while FeedbackText is non-empty leaves
\* FeedbackText and the loading flag as they were and sets ErrorMessage to "".
C9_SelectKeepsFeedback ==
    [][ (event'.op = "onChange" /\ Truthy(feedback)) =>
            /\ feedback' = feedback
            /\ Truthy(feedback')
            /\ loading' = loading
            /\ error' = "" ]_vars

\* another file was selected while feedback is shown
C9_Witness ==
    /\ event.op = "onChange"
    /\ IsFile(selectedFile)
    /\ Truthy(feedback)

----------------------------------------------------------------------------
(* C10: the upload always ends *)

\* C10: whenever the loading flag is true it eventually becomes false, given
\* that every pending fetch() and response.json() eventually settles.
C10_LoadingEventuallyFalse ==
    loading ~> ~loading

\* an upload ended on a body that is not JSON, and the flag is false again
C10_Witness ==
    /\ event.op = "json"
    /\ event.result = "rejected"
    /\ inflight = {}
    /\ ~loading

----------------------------------------------------------------------------
(* C11: a 2xx response without usable feedback *)

\* C11: a step in which response.json() of a 2xx response rejects, or resolves
\* with a value that has no feedback string, ends with ErrorMessage non-empty,
\* FeedbackText as it was and the loading flag false.
C11_UndecodableBodyIsFailure ==
    [][ (event'.op = "json" /\ event'.status \in 200..299
            /\ ~HasFeedbackString(event'.data)) =>
            /\ error' # ""
            /\ feedback' = feedback
            /\ ~loading' ]_vars

----------------------------------------------------------------------------
(* C12: feedback and error together *)

BothShown == Truthy(feedback) /\ error # ""

\* C12 as stated: in every reachable state at most one of FeedbackText and
\* ErrorMessage is non-empty.
C12_NeverBothShown ==
    ~BothShown

\* C12 amended: FeedbackText and ErrorMessage become non-empty together only by
\* a failure step of uploadResume (a failed validation, a failed response) that
\* sets ErrorMessage while the feedback of an earlier success is left in place;
\* no step that writes FeedbackText ends with both non-empty.
C12_BothShownOnlyAfterFailedResubmit ==
    [][ /\ (BothShown' /\ ~BothShown) =>
                /\ feedback' = feedback
                /\ error' # error
                /\ event'.op \in { "uploadResume", "fetch", "json" }
        /\ feedback' # feedback => ~BothShown' ]_vars

\* a submit without a file, made while earlier feedback is shown
C12_Witness ==
    /\ BothShown
    /\ Submitted
    /\ error = MsgNoFile

----------------------------------------------------------------------------
(* C13: reset during an upload *)

\* the step ends an upload: a failed response, or response.json() settling
Completion ==
    event'.op \in { "fetch", "json" } /\ event'.result # "ok"

\* C13: a resetRequest step leaves the requests in flight as they were, and a
\* request that completes while SelectedFile is null still sets the loading
\* flag to false and writes its feedback string to FeedbackText or a message to
\* ErrorMessage.
C13_ResetDoesNotCancel ==
    [][ /\ event'.op = "resetRequest" => (inflight' = inflight /\ loading' = loading)
        /\ (Completion /\ selectedFile = JSNull) =>
                /\ ~loading'
                /\ HasFeedbackString(event'.data) => feedback' = event'.data.feedback
                /\ event'.result \in { "status", "rejected" } => error' # "" ]_vars

\* feedback arrived after the reset: no file is selected and feedback is shown
C13_Witness ==
    /\ selectedFile = JSNull
    /\ Truthy(feedback)
    /\ event.op = "json"
    /\ ~loading

\* an error arrived after the reset: no file is selected and an error is shown
C13_WitnessError ==
    /\ selectedFile = JSNull
    /\ error # ""
    /\ event.op = "fetch"
    /\ ~loading

----------------------------------------------------------------------------
(* C14: uploadResume called while an upload is running *)

\* C14: when uploadResume is called with a valid file while a request is in
\* flight, one more request is issued beside the pending ones; every completion
\* sets the loading flag to false, whether or not other requests are still in
\* flight, and a completion carrying a feedback string overwrites FeedbackText,
\* so the last completion decides what is shown.
C14_NoInFlightGuard ==
    [][ /\ (event'.op = "uploadResume" /\ inflight # {} /\ ~FailsValidation(selectedFile)) =>
                /\ sent' = sent + 1
                /\ inflight \subseteq inflight'
                /\ Cardinality(inflight') = Cardinality(inflight) + 1
                /\ \A r \in inflight' \ inflight : r.file = selectedFile
        /\ Completion =>
                /\ ~loading'
                /\ Cardinality(inflight') = Cardinality(inflight) - 1
                /\ HasFeedbackString(event'.data) => feedback' = event'.data.feedback ]_vars

\* the first of two uploads has delivered its feedback and cleared the loading
\* flag while the second is still in flight
C14_Witness ==
    /\ event.op = "json"
    /\ feedback = JSString("Needs work")
    /\ ~loading
    /\ Cardinality(inflight) = 1
    /\ sent = 2

----------------------------------------------------------------------------
(* C15: one request per valid submit, no retry *)

RequestIds(reqs) == { r.id : r \in reqs }

\* C15: the count of requests sent changes only in an uploadResume step whose
\* file passes validation, and then by exactly one with exactly one new request
\* in flight; no other step, whatever response it handles, issues a request.
C15_OneRequestPerValidSubmit ==
    [][ /\ sent' # sent =>
                (event'.op = "uploadResume" /\ ~FailsValidation(selectedFile))
        /\ (event'.op = "uploadResume" /\ ~FailsValidation(selectedFile)) =>
                /\ sent' = sent + 1
                /\ Cardinality(RequestIds(inflight') \ RequestIds(inflight)) = 1
        /\ (event'.op = "uploadResume" /\ FailsValidation(selectedFile)) =>
                inflight' = inflight
        /\ event'.op # "uploadResume" =>
                RequestIds(inflight') \subseteq RequestIds(inflight) ]_vars

\* the second upload was answered 500 and nothing is in flight afterwards
C15_Witness ==
    /\ event.op = "fetch"
    /\ event.status = 500
    /\ sent = 2
    /\ inflight = {}

----------------------------------------------------------------------------
(* C16, C17: what the disabled button guarantees *)

\* C16: right after a submit of a file that passes validation ErrorMessage is
\* "", the loading flag is true and the request waits for its response; and in
\* every state where the loading flag is true ErrorMessage is "".
C16_NoErrorWhileLoading ==
    /\ (Submitted /\ ~FailsValidation(selectedFile)) =>
            /\ error = ""
            /\ loading
            /\ \E r \in inflight : r.id = sent /\ r.phase = "fetch"
    /\ loading => error = ""

\* a file that fails validation was selected during an upload started after a
\* failed one
C16_Witness ==
    /\ loading
    /\ error = ""
    /\ event.op = "onChange"
    /\ FailsValidation(selectedFile)
    /\ sent = 2

\* C17: at most one request is in flight, and the loading flag is true exactly
\* when one is.
C17_LoadingIffOneInFlight ==
    /\ Cardinality(inflight) <= 1
    /\ loading <=> inflight # {}

\* a reset was made during the first upload, which is still in flight
C17_Witness ==
    /\ event.op = "resetRequest"
    /\ loading
    /\ Cardinality(inflight) = 1
    /\ sent = 1

----------------------------------------------------------------------------
(* C18: the file of a request *)

\* C18: the request issued by a valid submit carries the SelectedFile of that
\* moment; an onChange step leaves the requests in flight as they are; a
\* request keeps its file for as long as it is in flight; and the feedback a
\* request delivers is the feedback for the file it was issued with.
C18_RequestKeepsItsFile ==
    [][ /\ (event'.op = "uploadResume" /\ ~FailsValidation(selectedFile)) =>
                \A r \in inflight' : r.id \notin RequestIds(inflight) => r.file = selectedFile
        /\ event'.op = "onChange" => inflight' = inflight
        /\ \A r \in inflight : \A q \in inflight' : q.id = r.id => q.file = r.file
        /\ (event'.op = "json" /\ event'.result = "data") =>
                /\ \E r \in inflight : r.id \notin RequestIds(inflight') /\ r.file = event'.file
                /\ HasFeedbackString(event'.data) => feedback' = event'.data.feedback ]_vars

\* the feedback shown was produced for a file other than the one selected now
C18_Witness ==
    /\ event.op = "json"
    /\ Truthy(feedback)
    /\ feedback = event.data.feedback
    /\ IsFile(event.file)
    /\ IsFile(selectedFile)
    /\ event.file # selectedFile

----------------------------------------------------------------------------
(* C19: the export *)

\* C19: a downloadPDF step is taken only while FeedbackText is non-empty, leaves
\* SelectedFile, FeedbackText, ErrorMessage and the loading flag as they were,
\* and saves the title "Resume Evaluation Feedback" followed by FeedbackText.
C19_ExportOnlyWithFeedback ==
    [][ event'.op = "downloadPDF" =>
            /\ feedback.t = "string"
            /\ feedback.v # ""
            /\ UNCHANGED <<selectedFile, feedback, error, loading>>
            /\ saved' = << "Resume Evaluation Feedback", feedback.v >> ]_vars

\* the feedback "Needs work" was exported
C19_Witness ==
    /\ event.op = "downloadPDF"
    /\ saved = << "Resume Evaluation Feedback", "Needs work" >>
    /\ feedback = JSString("Needs work")

====
